---- MODULE Spec2Model ----
(***************************************************************************)
(* TSGraph: TSMT$Graph / TSMT$GraphNode / TSMT$GraphArc.                   *)
(*                                                                         *)
(* The object heap is modelled explicitly.  Node objects are the numbers   *)
(* 1..NumNodes (all constructed up front, outside any graph), arc objects  *)
(* are allocated by addArc as 1..Len(arc).  NULL is the null reference.    *)
(* Every property setter of the source is an operator of its own, because  *)
(* the setters of GraphNode and GraphArc ignore null/undefined.            *)
(***************************************************************************)
EXTENDS Integers, Sequences, FiniteSets, TLC

\* ----- bounds -----
NumNodes == 3
MaxArcs  == 3
NumValues == 2
\* arcs of the graphs that are traversed from an unmarked state
MaxCleanArcs == 2
\* the largest cost of an arc
MaxCost == 1
\* nodes and arcs of the graphs on which every method is called
MaxFrameNodes == 2
MaxFrameArcs == 2
\* declared nodes, and edges and listed targets, of the descriptions handed
\* to graphFromList
MaxListNodes == 2
MaxListTargets == 2

NULL == 0

Nodes  == 1..NumNodes
Values == 1..NumValues
\* a value that no node ever holds
NoSuchValue == NumValues + 1

\* the value handed to the constructor of node object n: values repeat, so
\* that several nodes can hold the same value
NodeValue(n) == ((n - 1) % NumValues) + 1

VARIABLES
  node,       \* node heap: [Nodes -> record of the fields of TSMT$GraphNode]
  arc,        \* arc heap: sequence of records of the fields of TSMT$GraphArc
  size,       \* TSMT$Graph._size
  nodeList,   \* TSMT$Graph._nodeList
  curNode,    \* TSMT$Graph._curNode
  struct,     \* TSMT$Graph._struct
  traversal,  \* TSMT$Graph._traversal
  life,       \* history: per node "new" (never added), "in" (added, not removed), "out" (removed)
  last        \* history: the last call, its arguments, its result and a snapshot taken before it

vars == <<node, arc, size, nodeList, curNode, struct, traversal, life, last>>

Range(s) == {s[i] : i \in 1..Len(s)}

\* the heap as one value, threaded through the operators below
Heap == [node |-> node, arc |-> arc]

\* ----- TSMT$GraphNode.clear / constructor -----
NewNode(data) ==
  [id |-> 0, val |-> data, prev |-> NULL, next |-> NULL, parent |-> NULL, depth |-> 0,
   marked |-> FALSE, curArc |-> NULL, arcList |-> NULL]

\* ----- TSMT$GraphArc constructor -----
NewArc(target, cost) == [node |-> target, cost |-> cost, prev |-> NULL, next |-> NULL]

\* the cost of an arc or edge added without a cost argument
DefaultCost == 1

\* the costs handed to addArc, addEdge and addMutualEdge: one of them negative
Costs == (0 - 1)..MaxCost

\* ----- numbers: the finite costs and the three values that are not finite -----
\* each is written as an integer of its own beyond the finite costs
Infinity == MaxCost + 1

NegInfinity == 0 - (MaxCost + 1)

NaN == MaxCost + 2

\* every number a caller can hand over as a cost
Numbers == Costs \cup {Infinity, NegInfinity, NaN}

isNaN(v) == v = NaN

isFinite(v) == v \notin {NaN, Infinity, NegInfinity}

\* "cost = Math.max(0.0, cost)": NaN stays NaN and Infinity stays Infinity,
\* both of which are written as integers above 0
Clip(cost) == IF cost < 0 THEN 0 ELSE cost

\* ----- setters (all of them keep the old value when handed null) -----
NodeSetValue(h, n, v)    == IF v # NULL THEN [h EXCEPT !.node[n].val = v] ELSE h
NodeSetPrevious(h, n, v) == IF v # NULL THEN [h EXCEPT !.node[n].prev = v] ELSE h
NodeSetNext_plain(h, n, v) == [h EXCEPT !.node[n].next = v]
NodeSetNext(h, n, v)     == IF v # NULL THEN [h EXCEPT !.node[n].next = v] ELSE h
NodeSetArcList(h, n, a)  == IF a # NULL THEN [h EXCEPT !.node[n].arcList = a] ELSE h
NodeSetParent(h, n, v)   == IF v # NULL THEN [h EXCEPT !.node[n].parent = v] ELSE h
NodeSetMarked_setsDepth(h, n, b) ==
  [h EXCEPT !.node[n].marked = (b = TRUE), !.node[n].depth = IF b = TRUE THEN 1 ELSE 0]
NodeSetMarked(h, n, b)   == [h EXCEPT !.node[n].marked = (b = TRUE)]
ArcSetCost_acceptsInfinity(h, a, v) ==
  IF ~isNaN(v) /\ v >= 0 THEN [h EXCEPT !.arc[a].cost = v] ELSE h
\* "!isNaN(value) && isFinite(value) && value >= 0 ? value : this._cost"
ArcSetCost(h, a, v) ==
  IF ~isNaN(v) /\ isFinite(v) /\ v >= 0 THEN [h EXCEPT !.arc[a].cost = v] ELSE h
ArcSetPrevious(h, a, v)  == IF v # NULL THEN [h EXCEPT !.arc[a].prev = v] ELSE h
ArcSetNext(h, a, v)      == IF v # NULL THEN [h EXCEPT !.arc[a].next = v] ELSE h
ArcSetNode(h, a, v)      == IF v # NULL THEN [h EXCEPT !.arc[a].node = v] ELSE h

\* ----- walking the lists -----
RECURSIVE ArcWalk(_, _)
\* the arcs reached from arc a through next, in order
ArcWalk(h, a) == IF a = NULL THEN <<>> ELSE <<a>> \o ArcWalk(h, h.arc[a].next)

\* the arc list of node n, as the sequence of its arc objects
ArcsOf(h, n) == ArcWalk(h, h.node[n].arcList)

\* the targets of the arcs of node n, in list order
TargetsOf(h, n) == [i \in 1..Len(ArcsOf(h, n)) |-> h.arc[ArcsOf(h, n)[i]].node]

\* TSMT$GraphNode.arcCount
arcCount(h, n) == Len(ArcsOf(h, n))

RECURSIVE NodeWalk(_, _)
NodeWalk(h, n) == IF n = NULL THEN <<>> ELSE <<n>> \o NodeWalk(h, h.node[n].next)

\* TSMT$Graph.toArray
toArray(h, head) == NodeWalk(h, head)

RECURSIVE NodeWalkUpTo(_, _, _)
\* the first k nodes reached from node n through next
NodeWalkUpTo(h, n, k) ==
  IF n = NULL \/ k = 0 THEN <<>> ELSE <<n>> \o NodeWalkUpTo(h, h.node[n].next, k - 1)

\* the walk from head comes back to a node it has left: the loops
\* "while (node != null) node = node.next" do not end on such a list
Cyclic(h, head) == Len(NodeWalkUpTo(h, head, NumNodes + 1)) > NumNodes

\* the node list as far as it can be walked without going round
ListPrefix(h, head) == NodeWalkUpTo(h, head, NumNodes)

\* ----- TSMT$GraphNode.getArc -----
GetArcFrom_headOnly(h, a, target) ==
  IF a = NULL THEN NULL
  ELSE IF h.arc[a].node = target THEN a
  ELSE NULL

RECURSIVE GetArcFrom(_, _, _)
GetArcFrom(h, a, target) ==
  IF a = NULL THEN NULL
  ELSE IF h.arc[a].node = target THEN a
  ELSE GetArcFrom(h, h.arc[a].next, target)

getArc(h, n, target) ==
  IF target = NULL THEN NULL ELSE GetArcFrom(h, h.node[n].arcList, target)

\* ----- TSMT$GraphNode.connected / mutuallyConnected -----
connected(h, n, target) ==
  IF target # NULL THEN getArc(h, n, target) # NULL ELSE FALSE

mutuallyConnected(h, n, target) ==
  IF target # NULL
  THEN getArc(h, n, target) # NULL /\ getArc(h, target, n) # NULL
  ELSE FALSE

\* ----- TSMT$GraphNode.addArc -----
\* the else branch: link arc a behind the most recently added arc
AppendArc_keepsCurArc(h, n, a) ==
  ArcSetNext(ArcSetPrevious(h, a, h.node[n].curArc), h.node[n].curArc, a)

AppendArc(h, n, a) ==
  [ArcSetNext(ArcSetPrevious(h, a, h.node[n].curArc), h.node[n].curArc, a)
     EXCEPT !.node[n].curArc = a]

\* the new arc a is already allocated in h
LinkNewArc(h, n, a) ==
  IF h.node[n].arcList = NULL
  THEN [h EXCEPT !.node[n].arcList = a, !.node[n].curArc = a]
  ELSE AppendArc(h, n, a)

addArc_reciprocal(h, n, target, cost) ==
  IF target = NULL THEN h
  ELSE LinkNewArc(
         [LinkNewArc([h EXCEPT !.arc = Append(h.arc, NewArc(target, Clip(cost)))],
                     n, Len(h.arc) + 1)
            EXCEPT !.arc = Append(@, NewArc(n, Clip(cost)))],
         target, Len(h.arc) + 2)

addArc(h, n, target, cost) ==
  IF target = NULL THEN h
  ELSE LinkNewArc([h EXCEPT !.arc = Append(h.arc, NewArc(target, Clip(cost)))],
                  n, Len(h.arc) + 1)

\* ----- the three updates that take an arc out of its list -----
\* "if (arc.previous != null) arc.previous.next = hook"
SplicePrevious(h, a, hook) ==
  IF h.arc[a].prev # NULL THEN ArcSetNext(h, h.arc[a].prev, hook) ELSE h

\* "if (hook != null) hook.previous = arc.previous"
SpliceNext(h, a, hook) ==
  IF hook # NULL THEN ArcSetPrevious(h, hook, h.arc[a].prev) ELSE h

\* "if (node.arcList == arc) node.arcList = hook", through the arcList setter
SpliceHead(h, n, a, hook) ==
  IF h.node[n].arcList = a THEN NodeSetArcList(h, n, hook) ELSE h

\* "if (this._arcList == arc) this._arcList = arc.next", a plain assignment
SpliceOwnHead(h, n, a) ==
  IF h.node[n].arcList = a THEN [h EXCEPT !.node[n].arcList = h.arc[a].next] ELSE h

\* ----- TSMT$GraphNode.removeArc: the heap afterwards and the result -----
\* arc a of node n is taken out
RemoveFoundArc(h, n, a) ==
  SpliceOwnHead(SpliceNext(SplicePrevious(h, a, h.arc[a].next), a, h.arc[a].next), n, a)

removeArc(h, n, target) ==
  IF getArc(h, n, target) = NULL THEN [h |-> h, ret |-> FALSE]
  ELSE [h |-> RemoveFoundArc(h, n, getArc(h, n, target)), ret |-> TRUE]

\* ----- TSMT$Graph.__unlink -----
\* arc a of node n is taken out, hook being the arc after it
UnlinkArc(h, n, a, hook) ==
  SpliceHead(SpliceNext(SplicePrevious(h, a, hook), a, hook), n, a, hook)

RECURSIVE UnlinkInner(_, _, _, _)
\* the inner loop: drop from node1's list the arcs whose target is n
UnlinkInnerStep(h, n, node1, arc1, hook) ==
  UnlinkInner(IF h.arc[arc1].node = n THEN UnlinkArc(h, node1, arc1, hook) ELSE h,
              n, node1, hook)

UnlinkInner(h, n, node1, arc1) ==
  IF arc1 = NULL THEN h ELSE UnlinkInnerStep(h, n, node1, arc1, h.arc[arc1].next)

RECURSIVE UnlinkOuter(_, _, _)
\* the rest of the outer loop body, after the inner loop: hook = arc0.next
UnlinkOwnArc(h, n, arc0) ==
  UnlinkOuter(UnlinkArc(h, n, arc0, h.arc[arc0].next), n, h.arc[arc0].next)

\* the outer loop over the arcs of n
UnlinkOuter(h, n, arc0) ==
  IF arc0 = NULL THEN h
  ELSE UnlinkOwnArc(UnlinkInner(h, n, h.arc[arc0].node, h.node[h.arc[arc0].node].arcList),
                    n, arc0)

unlink(h, n) == NodeSetArcList(UnlinkOuter(h, n, h.node[n].arcList), n, NULL)

\* ----- TSMT$Graph.findNode -----
RECURSIVE FindFrom(_, _, _)
FindFrom(h, n, value) ==
  IF n = NULL THEN NULL
  ELSE IF h.node[n].val = value THEN n
  ELSE FindFrom(h, h.node[n].next, value)

findNode(h, head, value) == FindFrom(h, head, value)

\* ----- TSMT$Graph.isEmpty -----
isEmpty(sz) == sz = 0

\* ----- TSMT$Graph.contains -----
contains(h, head, x) == \E i \in 1..Len(toArray(h, head)) : h.node[toArray(h, head)[i]].val = x

\* ----- TSMT$Graph.remove: the loop over the node list -----
\* the four assignments of null after __unlink, all through the setters
ResetRemoved(h, n) ==
  NodeSetArcList(NodeSetPrevious(NodeSetNext(NodeSetValue(h, n, NULL), n, NULL), n, NULL),
                 n, NULL)

\* the body of "if (node.value == x)"; st = [h, size, found]
RemoveMatch(st, n) ==
  [h |-> ResetRemoved(unlink(st.h, n), n), size |-> st.size - 1, found |-> TRUE]

RECURSIVE RemoveLoop(_, _, _)
\* one iteration, next being node.next as read before the body
RemoveStep(st, n, x, next) ==
  RemoveLoop(IF st.h.node[n].val = x THEN RemoveMatch(st, n) ELSE st, next, x)

RemoveLoop(st, n, x) ==
  IF n = NULL THEN st ELSE RemoveStep(st, n, x, st.h.node[n].next)

remove(h, head, sz, x) == RemoveLoop([h |-> h, size |-> sz, found |-> FALSE], head, x)

\* ----- TSMT$Graph.removeNode: the heap afterwards -----
\* "if (node.previous != null) node.previous.next = node.next"
SpliceNodePrevious(h, n) ==
  IF h.node[n].prev # NULL THEN NodeSetNext(h, h.node[n].prev, h.node[n].next) ELSE h

\* "if (node.next != null) node.next.previous = node.previous"
SpliceNodeNext(h, n) ==
  IF h.node[n].next # NULL THEN NodeSetPrevious(h, h.node[n].next, h.node[n].prev) ELSE h

removeNode(h, n) == SpliceNodeNext(SpliceNodePrevious(unlink(h, n), n), n)

\* ----- history -----
\* pre is a snapshot taken before the call: the node list (addNode, removeNode,
\* remove), the arc list of the node (addEdge, addArc, removeArc), whether some
\* node of the graph was marked (DFS, BFS); for DFS and BFS n is the node the
\* start argument resolves to and ret the returned sequence; for remove t is
\* the value
NoCall == [op |-> "none", n |-> NULL, t |-> NULL, ret |-> FALSE, pre |-> <<>>, preSize |-> 0]

Call(op, n, t, ret, pre) ==
  [op |-> op, n |-> n, t |-> t, ret |-> ret, pre |-> pre, preSize |-> size]

Init ==
  /\ node = [n \in Nodes |-> NewNode(NodeValue(n))]
  /\ arc = <<>>
  /\ size = 0
  /\ nodeList = NULL
  /\ curNode = NULL
  /\ struct = <<>>
  /\ traversal = <<>>
  /\ life = [n \in Nodes |-> "new"]
  /\ last = NoCall

\* ----- TSMT$Graph.addNode -----
AddNodeCall_keepsCurNode(n) ==
  /\ size' = size + 1
  /\ IF nodeList = NULL
     THEN /\ nodeList' = n
          /\ curNode' = n
          /\ node' = node
     ELSE /\ node' = NodeSetNext(NodeSetPrevious(Heap, n, curNode), curNode, n).node
          /\ curNode' = curNode
          /\ nodeList' = nodeList
  /\ life' = [life EXCEPT ![n] = "in"]
  /\ last' = Call("addNode", n, NULL, FALSE, ListPrefix(Heap, nodeList))
  /\ UNCHANGED <<arc, struct, traversal>>

\* the call graph.addNode(n)
AddNodeCall(n) ==
  /\ size' = size + 1
  /\ IF nodeList = NULL
     THEN /\ nodeList' = n
          /\ curNode' = n
          /\ node' = node
     ELSE /\ node' = NodeSetNext(NodeSetPrevious(Heap, n, curNode), curNode, n).node
          /\ curNode' = n
          /\ nodeList' = nodeList
  /\ life' = [life EXCEPT ![n] = "in"]
  /\ last' = Call("addNode", n, NULL, FALSE, ListPrefix(Heap, nodeList))
  /\ UNCHANGED <<arc, struct, traversal>>

\* with a node that was never added before
\* (node objects are handed over in the order of their construction)
AddNode ==
  \E n \in Nodes :
    /\ life[n] = "new"
    /\ \A m \in Nodes : m < n => life[m] # "new"
    /\ AddNodeCall(n)

\* with any node that was never added before
AddNodeFresh == \E n \in Nodes : life[n] = "new" /\ AddNodeCall(n)

\* with any node that is not in the graph: a new one, or one that the graph
\* held before it was cleared
AddNodeAny == \E n \in Nodes : life[n] # "in" /\ AddNodeCall(n)

\* ----- TSMT$Graph.removeNode, with a node of the graph -----
RemoveNode ==
  \E n \in Nodes :
    /\ life[n] = "in"
    /\ node' = removeNode(Heap, n).node
    /\ arc' = removeNode(Heap, n).arc
    /\ nodeList' = IF nodeList = n THEN removeNode(Heap, n).node[n].next ELSE nodeList
    /\ size' = size - 1
    /\ life' = [life EXCEPT ![n] = "out"]
    /\ last' = Call("removeNode", n, NULL, FALSE, toArray(Heap, nodeList))
    /\ UNCHANGED <<curNode, struct, traversal>>

\* ----- TSMT$Graph.remove -----
Remove ==
  \E x \in Values \cup {NoSuchValue} :
    LET r == remove(Heap, nodeList, size, x) IN
    /\ size >= 0
    /\ node' = r.h.node
    /\ arc' = r.h.arc
    /\ size' = r.size
    /\ life' = [n \in Nodes |-> IF life[n] = "in" /\ node[n].val = x THEN "out" ELSE life[n]]
    /\ last' = Call("remove", NULL, x, r.found, toArray(Heap, nodeList))
    /\ UNCHANGED <<nodeList, curNode, struct, traversal>>

\* ----- TSMT$Graph.addEdge -----
addEdge(h, head, source, target, cost) ==
  IF source \in Range(toArray(h, head)) /\ target \in Range(toArray(h, head))
  THEN addArc(h, source, target, Clip(cost)) ELSE h

\* (called with nodes that were handed to this graph at some time)
AddEdge ==
  \E s \in Nodes, t \in Nodes :
    /\ life[s] # "new" /\ life[t] # "new"
    /\ Len(arc) < MaxArcs
    /\ LET h1 == addEdge(Heap, nodeList, s, t, DefaultCost) IN
       /\ node' = h1.node
       /\ arc' = h1.arc
    /\ last' = Call("addEdge", s, t, FALSE, ArcsOf(Heap, s))
    /\ UNCHANGED <<size, nodeList, curNode, struct, traversal, life>>

\* ----- TSMT$GraphNode.addArc called on a node directly -----
\* the call n.addArc(t)
AddArcCall(n, t) ==
  /\ Len(arc) < MaxArcs
  /\ LET h1 == addArc(Heap, n, t, DefaultCost) IN
     /\ node' = h1.node
     /\ arc' = h1.arc
  /\ last' = Call("addArc", n, t, FALSE, ArcsOf(Heap, n))
  /\ UNCHANGED <<size, nodeList, curNode, struct, traversal, life>>

AddArc == \E n \in Nodes, t \in Nodes : AddArcCall(n, t)

\* ----- TSMT$GraphNode.removeArc called on a node directly -----
\* the call n.removeArc(t)
RemoveArcCall(n, t) ==
  LET r == removeArc(Heap, n, t) IN
  /\ node' = r.h.node
  /\ arc' = r.h.arc
  /\ last' = Call("removeArc", n, t, r.ret, ArcsOf(Heap, n))
  /\ UNCHANGED <<size, nodeList, curNode, struct, traversal, life>>

RemoveArc == \E n \in Nodes, t \in Nodes : RemoveArcCall(n, t)

\* ----- TSMT$GraphNode.removeAllArcs -----
\* the loop body: "arc.node.removeArc(this); this.removeArc(arc.node)"
RemoveBoth(h, n, t) == removeArc(removeArc(h, t, n).h, n, t).h

RECURSIVE RemoveAllFrom(_, _, _)
\* "arc = arc.next", read after the two calls of the loop body
RemoveAllNext(h, n, a) == RemoveAllFrom(h, n, h.arc[a].next)

\* the while loop, from arc a on
RemoveAllFrom(h, n, a) ==
  IF a = NULL THEN h ELSE RemoveAllNext(RemoveBoth(h, n, h.arc[a].node), n, a)

\* the loop, then the plain assignment "this._arcList = null"
removeAllArcs(h, n) ==
  [RemoveAllFrom(h, n, h.node[n].arcList) EXCEPT !.node[n].arcList = NULL]

\* the targets of the arcs of every node, in list order
AllTargets(h) == [m \in Nodes |-> TargetsOf(h, m)]

RemoveAllArcs ==
  \E n \in Nodes :
    /\ node' = removeAllArcs(Heap, n).node
    /\ arc' = removeAllArcs(Heap, n).arc
    /\ last' = Call("removeAllArcs", n, NULL, FALSE, AllTargets(Heap))
    /\ UNCHANGED <<size, nodeList, curNode, struct, traversal, life>>

\* ----- TSMT$GraphNode.removeOutgoingArcs -----
RECURSIVE OutgoingFrom(_, _, _)
OutgoingNext_skipParallel(h, n, a) ==
  IF h.arc[a].next # NULL /\ h.arc[h.arc[a].next].node = h.arc[a].node
  THEN OutgoingFrom(h, n, h.arc[h.arc[a].next].next)
  ELSE OutgoingFrom(h, n, h.arc[a].next)

\* "arc = arc.next", read after the call of the loop body
OutgoingNext(h, n, a) == OutgoingFrom(h, n, h.arc[a].next)

\* the while loop, from arc a on: "this.removeArc(arc.node)"
OutgoingFrom(h, n, a) ==
  IF a = NULL THEN h ELSE OutgoingNext(removeArc(h, n, h.arc[a].node).h, n, a)

removeOutgoingArcs(h, n) == OutgoingFrom(h, n, h.node[n].arcList)

\* the call n.removeOutgoingArcs(); last.pre is every node's targets before
RemoveOutgoingArcs ==
  \E n \in Nodes :
    /\ node' = removeOutgoingArcs(Heap, n).node
    /\ arc' = removeOutgoingArcs(Heap, n).arc
    /\ last' = Call("removeOutgoingArcs", n, NULL, FALSE, AllTargets(Heap))
    /\ UNCHANGED <<size, nodeList, curNode, struct, traversal, life>>

\* ----- TSMT$Graph.clear -----
\* "arc.next = arc.previous = null; arc.node = null", all through setters
ClearArc(h, a) == ArcSetNode(ArcSetNext(ArcSetPrevious(h, a, NULL), a, NULL), a, NULL)

RECURSIVE ClearArcsFrom(_, _)
\* the inner while loop, from arc a on (nextArc is read before the assignments)
ClearArcsFrom(h, a) ==
  IF a = NULL THEN h ELSE ClearArcsFrom(ClearArc(h, a), h.arc[a].next)

\* "node.value = null; node.next = node.previous = null; node.arcList = null",
\* all through setters, after the arcs of the node
ClearNode(h, n) ==
  NodeSetArcList(
    NodeSetNext(
      NodeSetPrevious(
        NodeSetValue(ClearArcsFrom(h, h.node[n].arcList), n, NULL), n, NULL), n, NULL),
    n, NULL)

RECURSIVE ClearNodesFrom(_, _)
\* the outer while loop, from node n on (next is read before the assignments)
ClearNodesFrom(h, n) ==
  IF n = NULL THEN h ELSE ClearNodesFrom(ClearNode(h, n), h.node[n].next)

clear(h, head) == ClearNodesFrom(h, head)

\* the arcs in the arc lists of the nodes of the list that starts at head
ArcsOfList(h, head) == UNION {Range(ArcsOf(h, n)) : n \in Range(toArray(h, head))}

Clear_keepsList ==
  /\ ~Cyclic(Heap, nodeList)
  /\ node' = clear(Heap, nodeList).node
  /\ arc' = clear(Heap, nodeList).arc
  /\ struct' = <<>>
  /\ traversal' = <<>>
  /\ nodeList' = nodeList
  /\ curNode' = NULL
  /\ size' = 0
  /\ life' = [n \in Nodes |-> IF life[n] = "in" THEN "out" ELSE life[n]]
  /\ last' = Call("clear", NULL, NULL, ArcsOfList(Heap, nodeList), toArray(Heap, nodeList))

\* the call returns only when the walk over the node list ends; last.pre is
\* the node list and last.ret the set of arcs of its nodes before the call
Clear ==
  /\ ~Cyclic(Heap, nodeList)
  /\ node' = clear(Heap, nodeList).node
  /\ arc' = clear(Heap, nodeList).arc
  /\ struct' = <<>>
  /\ traversal' = <<>>
  /\ nodeList' = NULL
  /\ curNode' = NULL
  /\ size' = 0
  /\ life' = [n \in Nodes |-> IF life[n] = "in" THEN "out" ELSE life[n]]
  /\ last' = Call("clear", NULL, NULL, ArcsOfList(Heap, nodeList), toArray(Heap, nodeList))

\* graph structure: nodes and edges come and go
Next == AddNode \/ RemoveNode \/ Remove \/ AddEdge

Spec == Init /\ [][Next]_vars

\* nodes and their arc lists alone, outside any graph
NodeNext == AddArc \/ RemoveArc

SpecNode == Init /\ [][NodeNext]_vars

\* arc lists built with addArc, and removeAllArcs
ArcsNext == AddArc \/ RemoveAllArcs

SpecArcs == Init /\ [][ArcsNext]_vars

\* arc lists built with addArc alone
AddArcsNext == AddArc

SpecAddArcs == Init /\ [][AddArcsNext]_vars

\* the arc list of one node: every addArc and removeArc is called on node 1
AddArcOne == \E t \in Nodes : AddArcCall(1, t)

RemoveArcOne == \E t \in Nodes : RemoveArcCall(1, t)

OneNodeNext == AddArcOne \/ RemoveArcOne

SpecOneNode == Init /\ [][OneNodeNext]_vars

\* addArc called on and between the first few nodes
AddArcFew == \E n \in 1..MaxFrameNodes, t \in 1..MaxFrameNodes : AddArcCall(n, t)

\* arcs among the first few nodes, arcs of node 1 removed one by one, and the
\* arcs of any node removed all at once
OutgoingArcsNext == AddArcFew \/ RemoveArcOne \/ RemoveOutgoingArcs

SpecOutgoing == Init /\ [][OutgoingArcsNext]_vars

\* addArc called with an absent target
AddArcAbsent == \E n \in 1..MaxFrameNodes : AddArcCall(n, NULL)

\* arcs among the first few nodes, with and without a target, and arcs of
\* node 1 removed one by one
ArcFrameNext == AddArcFew \/ AddArcAbsent \/ RemoveArcOne

SpecArcFrame == Init /\ [][ArcFrameNext]_vars

\* ----- TSMT$Graph.clearMarks -----
RECURSIVE ResetFrom(_, _)
\* the loop "node.marked = false; node = node.next" started at node n
ResetFrom(h, n) ==
  IF n = NULL THEN h ELSE ResetFrom(NodeSetMarked(h, n, FALSE), h.node[n].next)

clearMarks(h, head) == ResetFrom(h, head)

\* ----- TSMT$Graph.__DFSTraversal -----
\* st = [h, trav]: the heap (the marks change) and this._traversal
RECURSIVE DFSTraversal(_, _)
RECURSIVE DFSArcs(_, _)
\* the while loop over the arcs, from arc a on
DFSArcs(st, a) ==
  IF a = NULL THEN st
  ELSE
    LET n == st.h.arc[a].node IN
    DFSArcs(IF ~st.h.node[n].marked THEN DFSTraversal(st, n) ELSE st, st.h.arc[a].next)

\* a traversal that records the node after its descendants
DFSTraversal_postorder(st, n) ==
  LET r == DFSArcs([h |-> NodeSetMarked(st.h, n, TRUE), trav |-> st.trav],
                   st.h.node[n].arcList)
  IN  [r EXCEPT !.trav = Append(r.trav, n)]

DFSTraversal(st, n) ==
  DFSArcs([h |-> NodeSetMarked(st.h, n, TRUE), trav |-> Append(st.trav, n)],
          st.h.node[n].arcList)

\* ----- TSMT$Graph.__BFSTraversal -----
\* st = [h, q, trav]: the heap, this._struct and this._traversal
RECURSIVE BFSArcs(_, _)
\* the inner while loop over the arcs, from arc a on
BFSArcs(st, a) ==
  IF a = NULL THEN st
  ELSE
    LET n == st.h.arc[a].node IN
    BFSArcs(IF ~st.h.node[n].marked
            THEN [st EXCEPT !.h = NodeSetMarked(st.h, n, TRUE), !.q = Append(st.q, n)]
            ELSE st,
            st.h.arc[a].next)

RECURSIVE BFSLoop(_)
\* the outer while loop: shift, push to the traversal, scan the arcs
BFSLoop(st) ==
  IF Len(st.q) = 0 THEN st
  ELSE
    LET n == Head(st.q) IN
    BFSLoop(BFSArcs([st EXCEPT !.q = Tail(st.q), !.trav = Append(st.trav, n)],
                    st.h.node[n].arcList))

\* a traversal that enqueues the start node without marking it
BFSTraversal_unmarkedStart(st, n) ==
  BFSLoop([st EXCEPT !.q = Append(st.q, n)])

BFSTraversal(st, n) ==
  BFSLoop([st EXCEPT !.h = NodeSetMarked(st.h, n, TRUE), !.q = Append(st.q, n)])

\* ----- the start argument of DFS and BFS -----
\* absent, a reference to a node that was handed to this graph at some time,
\* or a value to look up
StartArgs ==
  {[kind |-> "none", v |-> NULL]}
    \cup {[kind |-> "node", v |-> n] : n \in {m \in Nodes : life[m] # "new"}}
    \cup {[kind |-> "value", v |-> x] : x \in Values \cup {NoSuchValue}}

\* the value to look up, when the start argument is one
StartValue(s) == IF s.kind = "value" THEN s.v ELSE NULL

\* the node the start argument resolves to
StartNode(h, head, s) ==
  IF s.kind = "none" THEN head
  ELSE IF s.kind = "node" THEN s.v
  ELSE findNode(h, head, s.v)

\* ----- TSMT$Graph.DFS / BFS: heap, buffers and returned sequence -----
\* a traversal that goes on in the buffer of the one before
Traverse_keepsBuffer(kind, h, head, sz, q, trav, s) ==
  IF sz = 0 THEN [h |-> h, q |-> q, trav |-> trav, ret |-> <<>>]
  ELSE IF sz = 1 THEN [h |-> h, q |-> q, trav |-> trav, ret |-> <<head>>]
  ELSE
    LET rootNode == StartNode(h, head, s) IN
    IF rootNode = NULL
    THEN [h |-> h, q |-> <<>>, trav |-> <<>>, ret |-> <<>>]
    ELSE
      LET h1 == ResetFrom(h, rootNode)
          r  == IF kind = "DFS"
                THEN [q |-> <<>>] @@ DFSTraversal([h |-> h1, trav |-> trav], rootNode)
                ELSE BFSTraversal([h |-> h1, q |-> <<>>, trav |-> trav], rootNode)
      IN  [h |-> r.h, q |-> r.q, trav |-> r.trav, ret |-> r.trav]

\* kind is "DFS" or "BFS"; the two methods differ in the traversal they call
Traverse(kind, h, head, sz, q, trav, s) ==
  IF sz = 0 THEN [h |-> h, q |-> q, trav |-> trav, ret |-> <<>>]
  ELSE IF sz = 1 THEN [h |-> h, q |-> q, trav |-> trav, ret |-> <<head>>]
  ELSE
    LET rootNode == StartNode(h, head, s) IN
    IF rootNode = NULL
    THEN [h |-> h, q |-> <<>>, trav |-> <<>>, ret |-> <<>>]
    ELSE
      LET h1 == ResetFrom(h, rootNode)
          r  == IF kind = "DFS"
                THEN [q |-> <<>>] @@ DFSTraversal([h |-> h1, trav |-> <<>>], rootNode)
                ELSE BFSTraversal([h |-> h1, q |-> <<>>, trav |-> <<>>], rootNode)
      IN  [h |-> r.h, q |-> r.q, trav |-> r.trav, ret |-> r.trav]

\* some node of the graph's list is marked
AnyMarked(h, head) == \E n \in Range(toArray(h, head)) : h.node[n].marked

ClearMarks ==
  /\ node' = clearMarks(Heap, nodeList).node
  /\ last' = Call("clearMarks", NULL, NULL, FALSE, <<>>)
  /\ UNCHANGED <<arc, size, nodeList, curNode, struct, traversal, life>>

DFS ==
  \E s \in StartArgs :
    LET r == Traverse("DFS", Heap, nodeList, size, struct, traversal, s) IN
    /\ node' = r.h.node
    /\ struct' = r.q
    /\ traversal' = r.trav
    /\ last' = Call("DFS", StartNode(Heap, nodeList, s), StartValue(s), r.ret,
                     AnyMarked(Heap, nodeList))
    /\ UNCHANGED <<arc, size, nodeList, curNode, life>>

BFS ==
  \E s \in StartArgs :
    LET r == Traverse("BFS", Heap, nodeList, size, struct, traversal, s) IN
    /\ node' = r.h.node
    /\ struct' = r.q
    /\ traversal' = r.trav
    /\ last' = Call("BFS", StartNode(Heap, nodeList, s), StartValue(s), r.ret,
                     AnyMarked(Heap, nodeList))
    /\ UNCHANGED <<arc, size, nodeList, curNode, life>>

\* DFS and BFS called while no node of the graph is marked
DFSClean == ~AnyMarked(Heap, nodeList) /\ DFS

BFSClean == ~AnyMarked(Heap, nodeList) /\ BFS

\* graphs built with addNode and addEdge, and traversed
TravNext == AddNode \/ AddEdge \/ ClearMarks \/ DFS \/ BFS

SpecTraverse == Init /\ [][TravNext]_vars

\* addEdge while the graph has few arcs
AddEdgeFew == Len(arc) < MaxCleanArcs /\ AddEdge

\* the same, every traversal starting from a graph without marks
CleanNext == AddNode \/ AddEdgeFew \/ ClearMarks \/ DFSClean \/ BFSClean

SpecClean == Init /\ [][CleanNext]_vars

\* ----- TSMT$Graph.addMutualEdge -----
addMutualEdge_oneWay(h, head, source, target, cost) ==
  IF source \in Range(toArray(h, head)) /\ target \in Range(toArray(h, head))
  THEN addArc(h, source, target, cost) ELSE h

addMutualEdge(h, head, source, target, cost) ==
  IF source \in Range(toArray(h, head)) /\ target \in Range(toArray(h, head))
  THEN addArc(addArc(h, source, target, cost), target, source, cost) ELSE h

\* ----- TSMT$Graph.clearParent -----
RECURSIVE ParentResetFrom(_, _)
\* the loop "node.parent = null; node = node.next", from node n on
ParentResetFrom(h, n) ==
  IF n = NULL THEN h ELSE ParentResetFrom(NodeSetParent(h, n, NULL), h.node[n].next)

clearParent(h, head) == ParentResetFrom(h, head)

\* ----- the graph with few nodes and arcs, every method called -----
\* the nodes that were handed to the graph at some time
Handed == {n \in Nodes : life[n] # "new"}

AddNodeFew == Cardinality(Handed) < MaxFrameNodes /\ AddNode

AddEdgeFrame == Len(arc) < MaxFrameArcs /\ AddEdge

\* the call graph.addMutualEdge(s, t, c); last.ret is the cost argument,
\* last.pre the arc lists of s and t and the number of arcs before the call
AddMutualEdgeCall(s, t, c) ==
  /\ node' = addMutualEdge(Heap, nodeList, s, t, c).node
  /\ arc' = addMutualEdge(Heap, nodeList, s, t, c).arc
  /\ last' = Call("addMutualEdge", s, t, c,
                  [src |-> ArcsOf(Heap, s), tgt |-> ArcsOf(Heap, t), arcs |-> Len(arc)])
  /\ UNCHANGED <<size, nodeList, curNode, struct, traversal, life>>

\* (called without a cost, with nodes that were handed to this graph at some time)
AddMutualEdge ==
  \E s \in Handed, t \in Handed :
    Len(arc) + 2 <= MaxFrameArcs /\ AddMutualEdgeCall(s, t, DefaultCost)

\* called with any two nodes and any cost
AddMutualEdgeCost ==
  \E s \in Nodes, t \in Nodes, c \in Costs :
    Len(arc) + 2 <= MaxArcs /\ AddMutualEdgeCall(s, t, c)

ClearParent ==
  /\ node' = clearParent(Heap, nodeList).node
  /\ last' = Call("clearParent", NULL, NULL, FALSE, <<>>)
  /\ UNCHANGED <<arc, size, nodeList, curNode, struct, traversal, life>>

\* the caller assigns a node's parent: n.parent = p
SetParent ==
  \E n \in Nodes, p \in Nodes \cup {NULL} :
    /\ node' = NodeSetParent(Heap, n, p).node
    /\ last' = Call("setParent", n, p, FALSE, <<>>)
    /\ UNCHANGED <<arc, size, nodeList, curNode, struct, traversal, life>>

\* graphs whose nodes are given parents, and whose parents are cleared
ParentNext == AddNode \/ SetParent \/ ClearParent

SpecParent == Init /\ [][ParentNext]_vars

\* small graphs built with addNode, addEdge and addMutualEdge, and traversed
SearchNext == AddNodeFew \/ AddEdgeFew \/ AddMutualEdge \/ ClearMarks \/ DFS \/ BFS

SpecSearch == Init /\ [][SearchNext]_vars

\* ----- arcs and edges added with any number as the cost -----
\* the call n.addArc(t, c); last.ret is the cost argument
AddArcCostCall(n, t, c) ==
  /\ Len(arc) < MaxCleanArcs
  /\ node' = addArc(Heap, n, t, c).node
  /\ arc' = addArc(Heap, n, t, c).arc
  /\ last' = Call("addArc", n, t, c, ArcsOf(Heap, n))
  /\ UNCHANGED <<size, nodeList, curNode, struct, traversal, life>>

AddArcCost ==
  \E n \in 1..MaxFrameNodes, t \in 1..MaxFrameNodes, c \in Numbers : AddArcCostCall(n, t, c)

\* the same, every arc added to node 1
AddArcCostOne == \E t \in 1..MaxFrameNodes, c \in Numbers : AddArcCostCall(1, t, c)

\* the call addEdge(s, t, c); last.ret is the cost argument
AddEdgeCost ==
  \E s \in Handed, t \in Handed, c \in Numbers :
    /\ Len(arc) < MaxCleanArcs
    /\ node' = addEdge(Heap, nodeList, s, t, c).node
    /\ arc' = addEdge(Heap, nodeList, s, t, c).arc
    /\ last' = Call("addEdge", s, t, c, ArcsOf(Heap, s))
    /\ UNCHANGED <<size, nodeList, curNode, struct, traversal, life>>

\* the call addMutualEdge(s, t, c)
AddMutualEdgeNumber ==
  \E s \in Handed, t \in Handed, c \in Numbers :
    Len(arc) + 2 <= MaxCleanArcs /\ AddMutualEdgeCall(s, t, c)

\* the caller assigns an arc's cost: a.cost = v; last.pre is the cost before
SetCost ==
  \E a \in 1..Len(arc), v \in Numbers :
    /\ arc' = ArcSetCost(Heap, a, v).arc
    /\ last' = Call("setCost", a, NULL, v, arc[a].cost)
    /\ UNCHANGED <<node, size, nodeList, curNode, struct, traversal, life>>

\* arcs of node 1 created with any cost, and their costs assigned
SetCostNext == AddArcCostOne \/ SetCost

SpecSetCost == Init /\ [][SetCostNext]_vars

\* ----- the previous and next setters called by the caller -----
\* node 1's links are assigned any of the first few nodes, or null;
\* last.t is the value assigned and last.pre the link before
SetNodePrevious ==
  \E v \in (1..MaxFrameNodes) \cup {NULL} :
    /\ node' = NodeSetPrevious(Heap, 1, v).node
    /\ last' = Call("setNodePrevious", 1, v, FALSE, node[1].prev)
    /\ UNCHANGED <<arc, size, nodeList, curNode, struct, traversal, life>>

SetNodeNext ==
  \E v \in (1..MaxFrameNodes) \cup {NULL} :
    /\ node' = NodeSetNext(Heap, 1, v).node
    /\ last' = Call("setNodeNext", 1, v, FALSE, node[1].next)
    /\ UNCHANGED <<arc, size, nodeList, curNode, struct, traversal, life>>

\* the first arc's links are assigned any arc, or null
SetArcPrevious ==
  \E v \in (1..Len(arc)) \cup {NULL} :
    /\ Len(arc) >= 1
    /\ arc' = ArcSetPrevious(Heap, 1, v).arc
    /\ last' = Call("setArcPrevious", 1, v, FALSE, arc[1].prev)
    /\ UNCHANGED <<node, size, nodeList, curNode, struct, traversal, life>>

SetArcNext ==
  \E v \in (1..Len(arc)) \cup {NULL} :
    /\ Len(arc) >= 1
    /\ arc' = ArcSetNext(Heap, 1, v).arc
    /\ last' = Call("setArcNext", 1, v, FALSE, arc[1].next)
    /\ UNCHANGED <<node, size, nodeList, curNode, struct, traversal, life>>

\* node 1 gets an arc; its arc list, which the assigned links may have bent
\* into a ring, is not walked for the history
AddArcUnwalked ==
  \E t \in 1..MaxFrameNodes :
    /\ Len(arc) < MaxCleanArcs
    /\ node' = addArc(Heap, 1, t, DefaultCost).node
    /\ arc' = addArc(Heap, 1, t, DefaultCost).arc
    /\ last' = Call("addArc", 1, t, FALSE, <<>>)
    /\ UNCHANGED <<size, nodeList, curNode, struct, traversal, life>>

\* arcs of node 1 are created, and links of a node and of an arc assigned
SettersNext ==
  AddArcUnwalked \/ SetNodePrevious \/ SetNodeNext \/ SetArcPrevious \/ SetArcNext

SpecSetters == Init /\ [][SettersNext]_vars

\* small graphs whose arcs and edges are added with any cost
CostNext == AddNodeFew \/ AddArcCost \/ AddEdgeCost \/ AddMutualEdgeNumber

SpecCost == Init /\ [][CostNext]_vars

\* ----- a graph as a value: heap, _size, _nodeList, _curNode, error raised -----
GraphState(h, sz, head, cur) ==
  [h |-> h, size |-> sz, nodeList |-> head, curNode |-> cur, err |-> FALSE]

\* "new TSMT$Graph()": the constructor calls clear() on no nodes
EmptyGraph(h) == GraphState(h, 0, NULL, NULL)

\* the reference undefined, which is neither null nor a node
UNDEFINED == NumNodes + 1

\* ----- TSMT$Graph.addNode, for every argument -----
\* "if (node === undefined && node == null) return" lets null through; with
\* null, "node.previous = this._curNode" raises a TypeError after "_size++"
addNode(g, n) ==
  IF n = UNDEFINED THEN g
  ELSE IF g.nodeList = NULL
  THEN [g EXCEPT !.size = @ + 1, !.nodeList = n, !.curNode = n]
  ELSE IF n = NULL
  THEN [g EXCEPT !.size = @ + 1, !.err = TRUE]
  ELSE [g EXCEPT !.size = @ + 1,
                 !.h = NodeSetNext(NodeSetPrevious(g.h, n, g.curNode), g.curNode, n),
                 !.curNode = n]

\* ----- graphFromList -----
\* a description is [absent, nodes, edges]: nodes is the sequence of declared
\* ids, edges a sequence of [from, to], to being [arr, ids]: an array of ids,
\* or (arr = FALSE) one id; the i-th declared node is node object i
AbsentList == [absent |-> TRUE, nodes |-> <<>>, edges |-> <<>>]

\* "nodeList[id]": the node declared last with this id, or undefined
Lookup(nodes, id) ==
  IF \E i \in 1..Len(nodes) : nodes[i] = id
  THEN CHOOSE i \in 1..Len(nodes) :
         nodes[i] = id /\ \A j \in 1..Len(nodes) : nodes[j] = id => j <= i
  ELSE UNDEFINED

\* the body of nodes.forEach: a new node with id and value id, then addNode
DeclareNode(g, i, id) ==
  addNode([g EXCEPT !.h.node[i] = [NewNode(NULL) EXCEPT !.id = id, !.val = id]], i)

RECURSIVE DeclareFrom(_, _, _)
DeclareFrom(g, nodes, i) ==
  IF i > Len(nodes) THEN g ELSE DeclareFrom(DeclareNode(g, i, nodes[i]), nodes, i + 1)

\* "to = nodeList[nodeID]; graph.addEdge(from, to)"
ListOneTarget(g, nodes, from, to) ==
  [g EXCEPT !.h = addEdge(g.h, g.nodeList, Lookup(nodes, from), Lookup(nodes, to),
                          DefaultCost)]

RECURSIVE ListTargets(_, _, _, _, _)
ListTargets_backwards(g, nodes, from, ids, j) ==
  IF j > Len(ids) THEN g
  ELSE ListOneTarget(ListTargets(g, nodes, from, ids, j + 1), nodes, from, ids[j])

\* toList.forEach, from the j-th id on
ListTargets(g, nodes, from, ids, j) ==
  IF j > Len(ids) THEN g
  ELSE ListTargets(ListOneTarget(g, nodes, from, ids[j]), nodes, from, ids, j + 1)

\* the body of edges.forEach
ListEdge(g, nodes, e) ==
  IF e.to.arr THEN ListTargets(g, nodes, e.from, e.to.ids, 1)
  ELSE ListOneTarget(g, nodes, e.from, e.to.ids[1])

RECURSIVE ListEdges(_, _, _, _)
ListEdges(g, nodes, edges, i) ==
  IF i > Len(edges) THEN g
  ELSE ListEdges(ListEdge(g, nodes, edges[i]), nodes, edges, i + 1)

graphFromList(h, desc) ==
  IF desc.absent THEN EmptyGraph(h)
  ELSE ListEdges(DeclareFrom(EmptyGraph(h), desc.nodes, 1), desc.nodes, desc.edges, 1)

\* ----- the descriptions handed to graphFromList -----
\* ids: those of the nodes that can be declared, and one more
ListIds == 1..(MaxListNodes + 1)

\* the description with no node and no edge
EmptyList == [absent |-> FALSE, nodes |-> <<>>, edges |-> <<>>]

\* the description the caller has written so far
Described == IF last.op = "describe" THEN last.pre ELSE EmptyList

RECURSIVE ListedCount(_)
\* the number of ids that the edges list
ListedCount(edges) ==
  IF edges = <<>> THEN 0 ELSE Len(Head(edges).to.ids) + ListedCount(Tail(edges))

\* the caller's description grows: nothing of the graph changes
Describe(desc) ==
  /\ last.op \in {"none", "describe"}
  /\ last' = Call("describe", NULL, NULL, FALSE, desc)
  /\ UNCHANGED <<node, arc, size, nodeList, curNode, struct, traversal, life>>

\* one more declared node, before the first edge; declared ids are distinct
\* and numbered in the order of declaration
DescribeNode ==
  /\ Len(Described.nodes) < MaxListNodes
  /\ Described.edges = <<>>
  /\ Describe([Described EXCEPT !.nodes = Append(@, Len(@) + 1)])

\* one more edge, its "to" an empty array
DescribeEdge ==
  \E f \in ListIds :
    /\ Len(Described.edges) < MaxListTargets
    /\ Describe([Described EXCEPT
                   !.edges = Append(@, [from |-> f, to |-> [arr |-> TRUE, ids |-> <<>>]])])

\* one more edge, its "to" one id
DescribeEdgeTo ==
  \E f \in ListIds, x \in ListIds :
    /\ Len(Described.edges) < MaxListTargets
    /\ ListedCount(Described.edges) < MaxListTargets
    /\ Describe([Described EXCEPT
                   !.edges = Append(@, [from |-> f, to |-> [arr |-> FALSE, ids |-> <<x>>]])])

\* one more id in the array of the last edge
DescribeTarget ==
  \E x \in ListIds :
    /\ Described.edges # <<>>
    /\ Described.edges[Len(Described.edges)].to.arr
    /\ ListedCount(Described.edges) < MaxListTargets
    /\ Describe([Described EXCEPT
                   !.edges[Len(Described.edges)].to.ids = Append(@, x)])

\* the graph that graphFromList(desc) returns becomes the graph of the model
FromListCall(desc) ==
  /\ last.op \in {"none", "describe"}
  /\ node' = graphFromList(Heap, desc).h.node
  /\ arc' = graphFromList(Heap, desc).h.arc
  /\ size' = graphFromList(Heap, desc).size
  /\ nodeList' = graphFromList(Heap, desc).nodeList
  /\ curNode' = graphFromList(Heap, desc).curNode
  /\ life' = [n \in Nodes |-> IF n <= Len(desc.nodes) THEN "in" ELSE "new"]
  /\ last' = Call("graphFromList", NULL, NULL, FALSE, desc)
  /\ UNCHANGED <<struct, traversal>>

\* called with the description written so far
FromList == FromListCall(Described)

\* called with null or undefined
FromListAbsent == FromListCall(AbsentList)

\* the three queries: only the history records them
FindNode ==
  \E x \in Values \cup {NoSuchValue} :
    /\ last' = Call("findNode", findNode(Heap, nodeList, x), x, FALSE, <<>>)
    /\ UNCHANGED <<node, arc, size, nodeList, curNode, struct, traversal, life>>

Contains ==
  \E x \in Values \cup {NoSuchValue} :
    /\ last' = Call("contains", NULL, x, contains(Heap, nodeList, x), <<>>)
    /\ UNCHANGED <<node, arc, size, nodeList, curNode, struct, traversal, life>>

ToArray ==
  /\ last' = Call("toArray", NULL, NULL, toArray(Heap, nodeList), <<>>)
  /\ UNCHANGED <<node, arc, size, nodeList, curNode, struct, traversal, life>>

FrameNext ==
  \/ AddNodeFew \/ RemoveNode \/ Remove \/ AddEdgeFrame \/ AddMutualEdge \/ Clear
  \/ ClearMarks \/ ClearParent \/ FindNode \/ Contains \/ ToArray \/ DFS \/ BFS

SpecFrame == Init /\ [][FrameNext]_vars

\* small graphs whose nodes and edges come and go, and that are cleared
EmptyNext == AddNodeFew \/ RemoveNode \/ Remove \/ AddEdgeFrame \/ Clear

SpecEmpty == Init /\ [][EmptyNext]_vars

\* the graph of the model as a value
Graph == GraphState(Heap, size, nodeList, curNode)

\* the call graph.addNode(v) with v null or undefined; last.ret tells whether
\* a TypeError was raised (size is kept within reach of the node count)
AddNodeAbsent ==
  \E v \in {NULL, UNDEFINED} :
    /\ size <= NumNodes
    /\ node' = addNode(Graph, v).h.node
    /\ size' = addNode(Graph, v).size
    /\ nodeList' = addNode(Graph, v).nodeList
    /\ curNode' = addNode(Graph, v).curNode
    /\ last' = Call("addNode(absent)", v, NULL, addNode(Graph, v).err, ListPrefix(Heap, nodeList))
    /\ UNCHANGED <<arc, struct, traversal, life>>

\* nodes and absent nodes are added in any order, and edges
AbsentNext == AddNodeFresh \/ AddEdgeFew \/ AddNodeAbsent

SpecAbsent == Init /\ [][AbsentNext]_vars

\* removeNode on a node list that can be walked to its end
RemoveNodeFinite == ~Cyclic(Heap, nodeList) /\ RemoveNode

\* nodes are added, removed, and added again
ReinsertNext == AddNodeAny \/ RemoveNodeFinite

SpecReinsert == Init /\ [][ReinsertNext]_vars

\* the call removeNode(n) with a node that is not in the graph: never added,
\* or removed before (size is kept within reach of the node count)
RemoveNodeOther ==
  \E n \in Nodes :
    /\ life[n] # "in"
    /\ ~Cyclic(Heap, nodeList)
    /\ size > 0 - NumNodes
    /\ node' = removeNode(Heap, n).node
    /\ arc' = removeNode(Heap, n).arc
    /\ nodeList' = IF nodeList = n THEN removeNode(Heap, n).node[n].next ELSE nodeList
    /\ size' = size - 1
    /\ last' = Call("removeNode(other)", n, NULL, FALSE, toArray(Heap, nodeList))
    /\ UNCHANGED <<curNode, struct, traversal, life>>

\* nodes are added and removed, and nodes that are not in the graph removed
OtherNext == AddNode \/ RemoveNodeFinite \/ RemoveNodeOther

SpecOther == Init /\ [][OtherNext]_vars

\* a description is written and a graph is made from it, and listed
FromListNext ==
  \/ DescribeNode \/ DescribeEdge \/ DescribeEdgeTo \/ DescribeTarget
  \/ FromList \/ FromListAbsent \/ ToArray

SpecFromList == Init /\ [][FromListNext]_vars

\* graphs that are built from new nodes in any order, and listed
BuildNext == AddNodeFresh \/ AddEdgeFew \/ ToArray

SpecBuild == Init /\ [][BuildNext]_vars

\* small graphs whose nodes come and go, with one-way and mutual edges
MutualNext == AddNodeFew \/ RemoveNode \/ AddEdgeFew \/ AddMutualEdgeCost

SpecMutual == Init /\ [][MutualNext]_vars

\* graphs whose nodes come and go, and that are traversed while no node is marked
MixedNext == AddNode \/ RemoveNode \/ Remove \/ AddEdgeFew \/ DFSClean \/ BFSClean

SpecMixed == Init /\ [][MixedNext]_vars

\* addEdge on a node list that can be walked to its end, while the graph has few arcs
AddEdgeFinite == ~Cyclic(Heap, nodeList) /\ AddEdgeFew

\* graphs that are built, cleared and built again, also from the same nodes
ClearNext == AddNodeAny \/ AddEdgeFinite \/ Clear

SpecClear == Init /\ [][ClearNext]_vars

\* ======================= properties =======================

\* the current node list, list membership and pure helpers
NodeArray == toArray(Heap, nodeList)

Without(seq, x) == SelectSeq(seq, LAMBDA y : y # x)

NoDuplicates(seq) == \A i, j \in 1..Len(seq) : i # j => seq[i] # seq[j]

\* seq without its first element that satisfies Test
RemoveFirst(seq, Test(_)) ==
  IF \E i \in 1..Len(seq) : Test(seq[i])
  THEN LET k == CHOOSE i \in 1..Len(seq) : Test(seq[i]) /\ \A j \in 1..(i - 1) : ~Test(seq[j])
       IN  SubSeq(seq, 1, k - 1) \o SubSeq(seq, k + 1, Len(seq))
  ELSE seq

\* the nodes that the arcs of the nodes in S lead to
Successors(S) == UNION {Range(TargetsOf(Heap, n)) : n \in S}

RECURSIVE ReachFrom(_)
ReachFrom(S) == IF Successors(S) \subseteq S THEN S ELSE ReachFrom(S \cup Successors(S))

\* the nodes reachable from n through outgoing arcs, n included
Reach(n) == ReachFrom({n})

\* C1: graph.size equals toArray().length in every state reached by addNode
\* (fresh nodes), removeNode (nodes of the graph) and remove(x) calls.
C1_SizeIsArrayLength == size = Len(NodeArray)

\* C2: after removeNode(n) of a node of the graph, toArray() is the previous
\* sequence with n deleted (the others in their previous order) and size is
\* one less, wherever n stood in the list.
C2_RemoveNodeSplices ==
  last.op = "removeNode" =>
    /\ NodeArray = Without(last.pre, last.n)
    /\ size = last.preSize - 1

\* C3: after removeNode(n) no node remaining in the graph has an arc whose
\* target is n.
C3_NoIncomingArcLeft ==
  last.op = "removeNode" =>
    \A m \in Nodes : life[m] = "in" => last.n \notin Range(TargetsOf(Heap, m))

\* C4: after removeNode(n) the removed node is unlinked and arc-free:
\* arcCount = 0, arcList absent, next and previous absent.
C4_RemovedNodeReset ==
  last.op = "removeNode" =>
    /\ arcCount(Heap, last.n) = 0
    /\ node[last.n].arcList = NULL
    /\ node[last.n].next = NULL
    /\ node[last.n].prev = NULL

\* C5: remove(x) returns true iff some node of the list had value x, and
\* afterwards no node of the list has value x: contains(x) is false,
\* findNode(x) is absent and a second remove(x) returns false.
C5_RemoveValue ==
  last.op = "remove" =>
    /\ last.ret <=> (\E i \in 1..Len(last.pre) : node[last.pre[i]].val = last.t)
    /\ ~contains(Heap, nodeList, last.t)
    /\ findNode(Heap, nodeList, last.t) = NULL
    /\ ~remove(Heap, nodeList, size, last.t).found

\* C10: removeArc(target) on a node without an arc to target returns false and
\* leaves the arc list as it was; on a node with such an arc it returns true
\* and the arc list is the previous one without its first arc to target, the
\* other arcs in their previous order (so arcCount is one less).
C10_RemoveArc ==
  last.op = "removeArc" =>
    LET ToTarget(a) == arc[a].node = last.t IN
    IF \E i \in 1..Len(last.pre) : ToTarget(last.pre[i])
    THEN /\ last.ret = TRUE
         /\ ArcsOf(Heap, last.n) = RemoveFirst(last.pre, ToTarget)
         /\ arcCount(Heap, last.n) = Len(last.pre) - 1
    ELSE /\ last.ret = FALSE
         /\ ArcsOf(Heap, last.n) = last.pre

\* ----- reference algorithms -----
RECURSIVE RefVisit(_, _)
RECURSIVE RefEach(_, _, _)
\* visit n: append it, then go through its arc targets in list order
RefVisit(seq, n) == RefEach(Append(seq, n), TargetsOf(Heap, n), 1)

RefEach(seq, ts, i) ==
  IF i > Len(ts) THEN seq
  ELSE RefEach(IF ts[i] \in Range(seq) THEN seq ELSE RefVisit(seq, ts[i]), ts, i + 1)

\* the pre-order sequence of the recursion started at n
RefDFS(n) == RefVisit(<<>>, n)

RECURSIVE RefEnqueue(_, _, _, _)
\* append to queue q the targets ts[i..] that are neither in q nor in done
RefEnqueue(q, done, ts, i) ==
  IF i > Len(ts) THEN q
  ELSE RefEnqueue(IF ts[i] \in Range(q) \cup Range(done) THEN q ELSE Append(q, ts[i]),
                  done, ts, i + 1)

RECURSIVE RefQueue(_, _)
\* q holds the nodes seen and not yet dequeued, done the nodes dequeued
RefQueue(q, done) ==
  IF q = <<>> THEN done
  ELSE RefQueue(RefEnqueue(Tail(q), Append(done, Head(q)), TargetsOf(Heap, Head(q)), 1),
                Append(done, Head(q)))

\* the sequence of the FIFO algorithm started at n
RefBFS(n) == RefQueue(<<n>>, <<>>)

RECURSIVE HopsFrom(_, _, _)
\* the least number of arcs from the nodes of S (already d hops away) to t
HopsFrom(S, t, d) ==
  IF t \in S THEN d
  ELSE IF Successors(S) \subseteq S THEN -1
  ELSE HopsFrom(S \cup Successors(S), t, d + 1)

\* hop distance from s to t (-1: t is not reachable)
Hops(s, t) == HopsFrom({s}, t, 0)

\* C6: on a graph with at least two nodes DFS(start) returns the nodes
\* reachable from start through outgoing arcs and no others, each once, start
\* first, whatever traversals were made before.
C6_DFSReturnsReachable ==
  (last.op = "DFS" /\ last.preSize >= 2 /\ last.n \in Range(NodeArray)) =>
    /\ Range(last.ret) = Reach(last.n)
    /\ NoDuplicates(last.ret)
    /\ last.ret[1] = last.n

\* C7: a DFS/BFS call on a graph with at least two nodes and a resolvable
\* start node resets the marks of all nodes of the graph first, so that when it
\* returns a node of the graph is marked iff it is in the returned sequence.
C7_MarkedIffReturned ==
  (last.op \in {"DFS", "BFS"} /\ last.preSize >= 2 /\ last.n # NULL) =>
    \A n \in Range(NodeArray) : node[n].marked <=> n \in Range(last.ret)

C11_NodeListLinked ==
  (last.op \in {"addNode", "removeNode"}) =>
    /\ nodeList # NULL => node[nodeList].prev = NULL
    /\ NodeArray # <<>> => node[NodeArray[Len(NodeArray)]].next = NULL
    /\ \A i \in 1..(Len(NodeArray) - 1) : node[NodeArray[i + 1]].prev = NodeArray[i]

\* C12: after addArc and removeArc calls on a node its arc list is a valid
\* doubly-linked list: the head arc has no previous, and the next of an arc
\* points back to it with previous.
C12_ArcListLinked ==
  (last.op \in {"addArc", "removeArc"}) =>
    LET as == ArcsOf(Heap, last.n) IN
    /\ as # <<>> => arc[as[1]].prev = NULL
    /\ \A i \in 1..(Len(as) - 1) : arc[as[i + 1]].prev = as[i]

\* C16: addEdge(source, target) adds no arc when source or target is not a
\* node of the graph (removed by removeNode or remove); when both are nodes of
\* the graph it appends exactly one arc source -> target to the arc list of
\* source.
C16_AddEdgeMembers ==
  (last.op = "addEdge") =>
    IF life[last.n] = "in" /\ life[last.t] = "in"
    THEN /\ ArcsOf(Heap, last.n) = Append(last.pre, Len(arc))
         /\ arc[Len(arc)].node = last.t
    ELSE ArcsOf(Heap, last.n) = last.pre

\* C18: addArc appends: after the call the arc list of the node is the list
\* before the call followed by the new arc, whose target is the argument, so
\* that addArc calls with targets T1..Tk yield T1..Tk in call order and
\* arcCount = k, and an arc added after removeArc calls is the last arc.
C18_AddArcAppends ==
  (last.op = "addArc") =>
    /\ ArcsOf(Heap, last.n) = Append(last.pre, Len(arc))
    /\ arc[Len(arc)].node = last.t
    /\ arcCount(Heap, last.n) = Len(last.pre) + 1

\* C18 happens: an arc was added to a list whose head arc still carries the
\* previous link of an arc removed before it
C18_Witness ==
  /\ last.op = "addArc"
  /\ Len(last.pre) >= 1
  /\ arc[last.pre[1]].prev # NULL
  /\ Len(ArcsOf(Heap, last.n)) >= 2

\* how many elements of seq are x
Count(seq, x) == Cardinality({i \in 1..Len(seq) : seq[i] = x})

\* C15: after N.removeAllArcs() N has no arcs (arcCount = 0, arcList absent),
\* every node T that N had an arc to and that had exactly one arc back to N has
\* no arc to N any more, wherever that arc was in the list of T, and the arcs
\* of other nodes that do not lead to N are unchanged.
C15_RemoveAllArcs ==
  (last.op = "removeAllArcs") =>
    /\ arcCount(Heap, last.n) = 0
    /\ node[last.n].arcList = NULL
    /\ \A T \in Range(last.pre[last.n]) \ {last.n} :
         Count(last.pre[T], last.n) = 1 => last.n \notin Range(TargetsOf(Heap, T))
    /\ \A M \in Nodes \ {last.n} :
         Without(TargetsOf(Heap, M), last.n) = Without(last.pre[M], last.n)

\* C13: after clear() every node that was in the graph is reset (value, next,
\* previous and arcList absent, arcCount = 0) and every arc that was in one of
\* their arc lists has no target, next or previous.
C13_ClearResets ==
  (last.op = "clear") =>
    /\ \A n \in Range(last.pre) :
         /\ node[n].val = NULL /\ node[n].next = NULL /\ node[n].prev = NULL
         /\ node[n].arcList = NULL /\ arcCount(Heap, n) = 0
    /\ \A a \in last.ret :
         arc[a].node = NULL /\ arc[a].next = NULL /\ arc[a].prev = NULL

\* C14: after clear(), adding nodes n1..nk (new ones or nodes the graph held
\* before the clear, in any order) gives size = k and toArray() = [n1..nk], a
\* finite list: each addNode appends its node to the list and to nothing else.
C14_ClearThenAdd ==
  (last.op = "addNode") =>
    /\ ~Cyclic(Heap, nodeList)
    /\ NodeArray = Append(last.pre, last.n)
    /\ size = Len(NodeArray)

\* C17: the sequence returned by a DFS/BFS call (on a graph with two or more
\* nodes and a start node it is the array _traversal itself) stays as it is
\* until the next DFS/BFS call: the operation called after the traversal,
\* whichever of addNode, removeNode, remove, addEdge, addMutualEdge, clear,
\* clearMarks, clearParent, findNode, contains, toArray it is, does not alter it.
C17_ReturnedStays ==
  [][(/\ last.op \in {"DFS", "BFS"} /\ last.preSize >= 2 /\ last.ret # <<>>
      /\ last'.op \notin {"DFS", "BFS"})
     => traversal' = last.ret]_vars

\* the nodes of the graph: added and not removed since
Members == {n \in Nodes : life[n] = "in"}

\* C19: on an empty graph DFS and BFS return the empty sequence, on a graph
\* with exactly one node the sequence of that node, for every start argument.
C19_EmptyAndSingle ==
  (last.op \in {"DFS", "BFS"}) =>
    /\ Members = {} => last.ret = <<>>
    /\ \A n \in Nodes : Members = {n} => last.ret = <<n>>

\* C20: on a graph with at least two nodes DFS(v) and BFS(v) with a value v
\* that no node of the graph holds return the empty sequence and leave the
\* marks of all nodes and the structure of the graph as they were.
C20_UnknownValue ==
  [][(/\ last'.op \in {"DFS", "BFS"} /\ last'.t # NULL
      /\ size >= 2 /\ Cardinality(Members) >= 2
      /\ \A n \in Members : node[n].val # last'.t)
     => /\ last'.ret = <<>>
        /\ node' = node /\ arc' = arc
        /\ size' = size /\ nodeList' = nodeList /\ curNode' = curNode]_vars

\* C21: in every state reached by addArc calls, A.connected(B) is true iff
\* the arc list of A holds an arc with target B, whether or not B has an arc
\* to A; A.mutuallyConnected(B) is true iff A has an arc to B and B has one to
\* A, hence symmetric; both are false for an absent target.
C21_Connectivity ==
  \A A \in Nodes :
    /\ \A B \in Nodes :
         /\ connected(Heap, A, B) <=> B \in Range(TargetsOf(Heap, A))
         /\ mutuallyConnected(Heap, A, B) <=>
              (B \in Range(TargetsOf(Heap, A)) /\ A \in Range(TargetsOf(Heap, B)))
         /\ mutuallyConnected(Heap, A, B) <=> mutuallyConnected(Heap, B, A)
    /\ ~connected(Heap, A, NULL)
    /\ ~mutuallyConnected(Heap, A, NULL)

\* C21 happens: some node is connected one way only, to the target of the
\* second arc of its list, and two other nodes are mutually connected
C21_Witness ==
  \E A \in Nodes, B \in Nodes, C \in Nodes :
    /\ A # B /\ A # C /\ B # C
    /\ Len(TargetsOf(Heap, A)) >= 2 /\ TargetsOf(Heap, A)[2] = B
    /\ connected(Heap, A, B) /\ ~connected(Heap, B, A)
    /\ mutuallyConnected(Heap, A, C)

\* the first node of seq that satisfies Test (NULL: none does)
FirstThat(seq, Test(_)) ==
  IF \E i \in 1..Len(seq) : Test(seq[i])
  THEN seq[CHOOSE i \in 1..Len(seq) : Test(seq[i]) /\ \A j \in 1..(i - 1) : ~Test(seq[j])]
  ELSE NULL

\* C22: findNode(v) returns the node of the graph that holds v, the first one
\* in node-list order when several do, and returns absent when no node of the
\* graph holds v or the graph is empty.
C22_FindNode ==
  (last.op = "findNode") =>
    LET Holds(n) == n \in Members /\ node[n].val = last.t
    IN  last.n = FirstThat(NodeArray, Holds)

\* C23: addMutualEdge(source, target, cost) with both nodes in the graph
\* appends one arc source -> target to the list of source and one arc
\* target -> source to the list of target, both with the same stored cost, so
\* that source.mutuallyConnected(target) holds; if source or target is not in
\* the node list no arc is added.
C23_AddMutualEdge ==
  (last.op = "addMutualEdge") =>
    LET s  == last.n
        t  == last.t
        a1 == last.pre.arcs + 1
        a2 == last.pre.arcs + 2
    IN
    /\ (s \in Members /\ t \in Members) =>
         /\ Len(arc) = last.pre.arcs + 2
         /\ arc[a1].node = t /\ arc[a2].node = s
         /\ arc[a1].cost = arc[a2].cost
         /\ arc[a1].cost = IF last.ret < 0 THEN 0 ELSE last.ret
         /\ IF s = t
            THEN ArcsOf(Heap, s) = last.pre.src \o <<a1, a2>>
            ELSE /\ ArcsOf(Heap, s) = Append(last.pre.src, a1)
                 /\ ArcsOf(Heap, t) = Append(last.pre.tgt, a2)
         /\ mutuallyConnected(Heap, s, t)
    /\ (s \notin Range(NodeArray) \/ t \notin Range(NodeArray)) =>
         /\ Len(arc) = last.pre.arcs
         /\ ArcsOf(Heap, s) = last.pre.src
         /\ ArcsOf(Heap, t) = last.pre.tgt

\* C23 happens: a mutual edge with a negative cost was added between two
\* different nodes of the graph, the source having an arc already
C23_Witness ==
  /\ last.op = "addMutualEdge"
  /\ last.n \in Members /\ last.t \in Members /\ last.n # last.t
  /\ last.pre.src # <<>>
  /\ last.ret < 0

\* C24: after addNode calls on distinct new nodes n1..nk (no removals)
\* toArray() returns [n1..nk] in insertion order: each addNode appends its node
\* to what toArray returned before, and toArray returns the list as it is, all
\* nodes added so far, each once, as many as size says.
C24_ToArrayInOrder ==
  /\ (last.op = "addNode") => NodeArray = Append(last.pre, last.n)
  /\ (last.op = "toArray") =>
       /\ last.ret = NodeArray
       /\ NoDuplicates(last.ret)
       /\ Range(last.ret) = Handed
       /\ Len(last.ret) = size

\* C24 happens: toArray returned all nodes, added in another order than that
\* of their construction
C24_Witness ==
  /\ last.op = "toArray"
  /\ Len(last.ret) = NumNodes
  /\ last.ret[1] > last.ret[2]

\* C25: after construction and after every clear() call, whatever the state
\* before, the graph is empty: size = 0, isEmpty is true, nodeList is absent
\* and toArray() is the empty sequence.
C25_EmptyAfterClear ==
  (last.op \in {"none", "clear"}) =>
    /\ size = 0
    /\ isEmpty(size)
    /\ nodeList = NULL
    /\ toArray(Heap, nodeList) = <<>>

\* C25 happens: clear() was called on a graph whose size was not the length of
\* its node list, the nodes of which are still linked afterwards
C25_Witness ==
  /\ last.op = "clear"
  /\ Len(last.pre) >= 2
  /\ last.preSize # Len(last.pre)
  /\ node[last.pre[1]].next # NULL

\* C26: after clearParent() every node in the node list has an absent
\* parent, whatever the parents were before the call.
C26_ClearParent ==
  (last.op = "clearParent") =>
    \A n \in Range(toArray(Heap, nodeList)) : node[n].parent = NULL

\* C27: after N.removeOutgoingArcs() node N has no arc left (arcCount = 0 and
\* connected(T) false for every T), whatever its arc list was, parallel arcs
\* included, and the arc lists of all other nodes are as before.
C27_RemoveOutgoingArcs ==
  (last.op = "removeOutgoingArcs") =>
    /\ arcCount(Heap, last.n) = 0
    /\ node[last.n].arcList = NULL
    /\ \A t \in Nodes : ~connected(Heap, last.n, t)
    /\ \A m \in Nodes \ {last.n} : TargetsOf(Heap, m) = last.pre[m]

\* C27 happens: the node had two parallel arcs first in its list and another
\* node had an arc to it
C27_Witness ==
  /\ last.op = "removeOutgoingArcs"
  /\ Len(last.pre[last.n]) >= 2
  /\ last.pre[last.n][1] = last.pre[last.n][2]
  /\ \E m \in Nodes \ {last.n} : last.n \in Range(last.pre[m])

\* C28: on every graph built by addNode, addEdge and addMutualEdge (cycles,
\* self-arcs and parallel arcs included) DFS and BFS return, and no node is
\* twice in the sequence they return; so the sequence is no longer than the
\* graph has nodes, which bounds the calls and queue entries of the traversal.
C28_NoNodeTwice ==
  (last.op \in {"DFS", "BFS"}) =>
    /\ NoDuplicates(last.ret)
    /\ Range(last.ret) \subseteq Range(toArray(Heap, nodeList))
    /\ Len(last.ret) <= size
    /\ traversal \in {<<>>, last.ret}

\* C28 happens: a traversal went round a cycle through its start node, in a
\* graph that had marks left from an earlier traversal
C28_Witness ==
  /\ last.op \in {"DFS", "BFS"}
  /\ last.pre
  /\ Len(last.ret) >= 2
  /\ last.ret[1] \in Range(TargetsOf(Heap, last.ret[2]))

\* C29: DFS and BFS change nothing in the graph but the marked flags and the
\* two buffers: size, the node list and its order, and every node's id, value,
\* parent, depth, links and arc list stay as they were, as does every arc.
C29_TraversalFrame ==
  [][(last'.op \in {"DFS", "BFS"}) =>
       /\ size' = size
       /\ nodeList' = nodeList
       /\ curNode' = curNode
       /\ arc' = arc
       /\ toArray(Heap, nodeList)' = toArray(Heap, nodeList)
       /\ \A n \in Nodes : [node'[n] EXCEPT !.marked = node[n].marked] = node[n]
       /\ \A n \in Nodes : TargetsOf(Heap, n)' = TargetsOf(Heap, n)]_vars

\* C29 happens: a traversal of several nodes changed the marks of the graph
C29_Witness ==
  /\ last.op \in {"DFS", "BFS"}
  /\ Len(last.ret) >= 2
  /\ Len(arc) >= 2
  /\ ~last.pre
  /\ \A n \in Range(last.ret) : node[n].marked

\* the arc lists of all nodes but a are the same before and after the step
OtherListsKept(a) ==
  /\ \A m \in Nodes \ {a} : ArcsOf(Heap, m)' = ArcsOf(Heap, m)
  /\ \A m \in Nodes \ {a} : TargetsOf(Heap, m)' = TargetsOf(Heap, m)

\* the step appends exactly one arc, to t, to the arc list of a
OneArcAdded(a, t) ==
  /\ TargetsOf(Heap, a)' = Append(TargetsOf(Heap, a), t)
  /\ arcCount(Heap, a)' = arcCount(Heap, a) + 1

\* C30: A.addArc(B) adds exactly one arc, to B, at the end of A's arc list
\* and leaves the arc list of B and of every other node as it was;
\* A.removeArc(B) leaves the arc list of B and of every other node as it
\* was; addArc with an absent target changes nothing at all.
C30_OtherListsKept ==
  [][\A a \in Nodes :
       /\ (last'.op = "addArc" /\ last'.n = a /\ last'.t # NULL) =>
            OneArcAdded(a, last'.t) /\ OtherListsKept(a)
       /\ (last'.op = "removeArc" /\ last'.n = a) => OtherListsKept(a)
       /\ (last'.op = "addArc" /\ last'.t = NULL) => (node' = node /\ arc' = arc)]_vars

\* C30 happens: an arc was added to a node that had arcs, while its target
\* had arcs of its own
C30_Witness ==
  /\ last.op = "addArc"
  /\ last.t # NULL
  /\ last.t # last.n
  /\ Len(last.pre) >= 1
  /\ arcCount(Heap, last.t) >= 1

\* a finite number that is not negative
NonNegativeFinite(v) == isFinite(v) /\ v >= 0

\* the last call created an arc
ArcCreated ==
  \/ last.op \in {"addArc", "addEdge"} /\ Len(ArcsOf(Heap, last.n)) > Len(last.pre)
  \/ last.op = "addMutualEdge" /\ Len(arc) > last.pre.arcs

\* C31: every arc created by addArc, addEdge or addMutualEdge stores a finite
\* cost that is not negative, whatever the cost argument: a negative argument
\* is stored as 0, a finite one from 0 on as it is, and no arc ever holds a
\* negative, NaN or infinite cost.
C31_StoredCost ==
  /\ \A i \in 1..Len(arc) : NonNegativeFinite(arc[i].cost)
  /\ (ArcCreated /\ isFinite(last.ret)) =>
       arc[Len(arc)].cost = (IF last.ret < 0 THEN 0 ELSE last.ret)

\* C32: assigning a finite cost c >= 0 to an arc makes its cost c; assigning
\* a negative, NaN or infinite value leaves the cost at its previous value.
\* No other arc's cost changes.
C32_CostSetter ==
  [][(last'.op = "setCost") =>
       \A a \in 1..Len(arc) :
         arc'[a].cost = IF a = last'.n /\ NonNegativeFinite(last'.ret)
                        THEN last'.ret ELSE arc[a].cost]_vars

\* C32 happens: a cost was assigned and then an infinite value was rejected,
\* the arc keeping the assigned cost
C32_Witness ==
  /\ last.op = "setCost"
  /\ last.ret \in {Infinity, NaN}
  /\ last.pre = 0
  /\ arc[last.n].cost = 0
  /\ \E a \in 1..Len(arc) : arc[a].cost = MaxCost

\* the link that the last setter call was made on, in the current state
LinkOfLast ==
  IF last.op = "setNodePrevious" THEN node[last.n].prev
  ELSE IF last.op = "setNodeNext" THEN node[last.n].next
  ELSE IF last.op = "setArcPrevious" THEN arc[last.n].prev
  ELSE arc[last.n].next

SetterOps == {"setNodePrevious", "setNodeNext", "setArcPrevious", "setArcNext"}

\* C33: assigning null through the previous or next setter of a node or of an
\* arc changes nothing: the getter returns the reference stored before. An
\* assigned reference is stored. So no setter call turns a link that is set
\* into an absent one.
C33_NullIsNoOp ==
  /\ (last.op \in SetterOps /\ last.t = NULL) => LinkOfLast = last.pre
  /\ (last.op \in SetterOps /\ last.t # NULL) => LinkOfLast = last.t
  /\ (last.op \in SetterOps /\ last.pre # NULL) => LinkOfLast # NULL

\* C33 happens: null was assigned to a link that was set, and the link is
\* still what it was
C33_Witness ==
  /\ last.op \in SetterOps
  /\ last.t = NULL
  /\ last.pre # NULL
  /\ LinkOfLast = last.pre

\* the description of the graph that graphFromList returned
ListDesc == IF last.op = "graphFromList" THEN last.pre ELSE AbsentList

\* the id is declared in the description
Declared(id) == \E i \in 1..Len(ListDesc.nodes) : ListDesc.nodes[i] = id

\* the node declared with the id
DeclaredAs(id) == CHOOSE i \in 1..Len(ListDesc.nodes) : ListDesc.nodes[i] = id

RECURSIVE ListedFrom(_, _)
\* the declared ids that the edges from the id list, in listed order
ListedFrom(edges, id) ==
  IF edges = <<>> THEN <<>>
  ELSE (IF Head(edges).from = id THEN SelectSeq(Head(edges).to.ids, Declared) ELSE <<>>)
         \o ListedFrom(Tail(edges), id)

\* C34: graphFromList returns an empty graph for an absent description; for
\* a description with distinct node ids it returns a graph with one node per
\* declared node, in declaration order, and for every edge one arc from its
\* 'from' node to each listed 'to' node, appended in listed order; an edge
\* that names an undeclared id adds no arc for it.
C34_GraphFromList ==
  (last.op = "graphFromList") =>
    /\ ListDesc.absent => (size = 0 /\ nodeList = NULL)
    /\ size = Len(ListDesc.nodes)
    /\ Len(toArray(Heap, nodeList)) = size
    /\ \A i \in 1..size : node[toArray(Heap, nodeList)[i]].id = ListDesc.nodes[i]
    /\ \A i \in 1..size :
         Len(TargetsOf(Heap, toArray(Heap, nodeList)[i]))
           = Len(ListedFrom(ListDesc.edges, ListDesc.nodes[i]))
    /\ \A i \in 1..size :
         \A j \in 1..Len(TargetsOf(Heap, toArray(Heap, nodeList)[i])) :
           TargetsOf(Heap, toArray(Heap, nodeList)[i])[j]
             = DeclaredAs(ListedFrom(ListDesc.edges, ListDesc.nodes[i])[j])
    /\ \A a \in 1..Len(arc) : \E n \in Range(toArray(Heap, nodeList)) : a \in Range(ArcsOf(Heap, n))

\* C34 happens: an array of an edge lists two declared nodes, the second
\* declared node first
C34_Witness ==
  /\ last.op = "graphFromList"
  /\ size = MaxListNodes
  /\ Len(ListDesc.edges) = 1
  /\ TargetsOf(Heap, 1) = <<2, 1>>

\* C35: on a graph with at least two nodes, DFS(s) and BFS(s) with the same
\* start node s of the graph return the same set of nodes, whichever of the
\* two is called first and whatever traversals came before: a DFS and a BFS
\* that follow each other from the same start return the same set.
C35_SameSet ==
  [][(/\ last.op \in {"DFS", "BFS"}
      /\ last'.op \in {"DFS", "BFS"}
      /\ last'.op # last.op
      /\ last'.n = last.n
      /\ last.n \in Range(toArray(Heap, nodeList))
      /\ size >= 2)
       => Range(last'.ret) = Range(last.ret)]_vars

\* C36: a node removed with removeNode can be inserted again: after
\* removeNode(n) on a member n and then addNode(n), the node list is finite
\* and acyclic, holds n exactly once, as its last element, and size is the
\* length of toArray().
C36_Reinsert ==
  [][(last.op = "removeNode" /\ last'.op = "addNode" /\ last'.n = last.n) =>
       /\ ~Cyclic(Heap, nodeList)'
       /\ Len(ListPrefix(Heap, nodeList)') >= 1
       /\ ListPrefix(Heap, nodeList)'[Len(ListPrefix(Heap, nodeList)')] = last'.n
       /\ NoDuplicates(ListPrefix(Heap, nodeList)')
       /\ size' = Len(ListPrefix(Heap, nodeList)')]_vars

\* C37: addNode with an absent node, null as well as undefined, is a no-op
\* on an empty and on a non-empty graph: size, the node list and the
\* insertion cursor are unchanged, and no error is raised.
C37_AddAbsentNode ==
  [][(last'.op = "addNode(absent)") =>
       /\ size' = size
       /\ nodeList' = nodeList
       /\ curNode' = curNode
       /\ node' = node
       /\ last'.ret = FALSE]_vars

\* C38: removeNode(n) with a node that is not in the node list of the graph,
\* never added or already removed, leaves size and the node list unchanged;
\* so it never makes size negative.
C38_RemoveNonMember ==
  [][(last'.op = "removeNode(other)") =>
       /\ size' = size
       /\ nodeList' = nodeList
       /\ ListPrefix(Heap, nodeList)' = ListPrefix(Heap, nodeList)
       /\ size' >= 0]_vars

====
